---- MODULE Spec2Model ----
(***************************************************************************)
(* Model of uptime_monitor.py: the device registry `devices` guarded by    *)
(* `devices_lock`, the scan loop with its pool of scan_host tasks, and the *)
(* /api/devices view builder.                                              *)
(*                                                                         *)
(* Addresses are dotted quads, modelled as their four octets.  Optional    *)
(* values (Python None) are modelled as sequences of length 0 or 1.        *)
(* Time is the value time.time() returns; it advances by Tick.             *)
(***************************************************************************)
EXTENDS Integers, Sequences, FiniteSets

VARIABLES
    devices,          \* ip -> record                        (line 24)
    baseline_done,    \* global flag                         (line 27)
    hosts,            \* sorted list of tracked addresses    (line 98)
    lock,             \* holder of devices_lock              (line 25)
    clock,            \* the latest value time.time() has returned
    first_iteration,  \* local of scan_loop                  (line 158)
    loop_pc,          \* position of scan_loop
    loop_now,         \* local `now` of scan_loop            (line 164)
    sleep_start,      \* time at which time.sleep began      (line 187)
    task_pc,          \* ip -> position of its scan_host task
    task_ok,          \* ip -> local `ok` of scan_host       (line 121)
    task_now,         \* ip -> local `now` of scan_host      (line 122)
    probed,           \* ip -> number of pings issued in the current sweep
    api_pc,           \* position of the api_devices request thread
    api_now,          \* local `now` of api_devices          (line 412)
    result,           \* local `result` of api_devices       (lines 414-476)
    first_set         \* history: ip -> the value first_seen was first set to

vars == <<devices, baseline_done, hosts, lock, clock, first_iteration, loop_pc,
          loop_now, sleep_start, task_pc, task_ok, task_now, probed,
          api_pc, api_now, result, first_set>>

(* ------------------------------ constants ------------------------------ *)

SCAN_INTERVAL_SECONDS == 30
MAX_WORKERS == 64
OFFLINE_FORGET_SECONDS == 300
NEW_DEVICE_WINDOW_MINUTES == 5
NEW_DEVICE_WINDOW_SECONDS == NEW_DEVICE_WINDOW_MINUTES * 60

\* Python None, and a present optional value.
None == << >>
Some(x) == <<x>>

\* Python truthiness of an optional number: None and 0 are falsy (`a or b`).
Truthy(x) == x # None /\ x # Some(0)

\* `a or b or c` on optional numbers (line 181); c is a plain number.
OrElse(a, b, c) == IF Truthy(a) THEN a[1] ELSE IF Truthy(b) THEN b[1] ELSE c

(* ------------------------------- bounds -------------------------------- *)

\* The clock is not advanced beyond MaxTime.
MaxTime == 901
\* Time is observed in steps of this many seconds.  A sweep (pings time out
\* after one second) and the handling of a request take less than one step:
\* the clock advances while scan_loop sleeps and before it reads `now`.
TickSteps == {300}

\* NETWORK_CIDR = 10.0.0.8/30: network.hosts() yields .9 and .10.
NETWORK_HOSTS == { <<10, 0, 0, 9>>, <<10, 0, 0, 10>> }

\* The known-hosts files with the given addresses, any required / vip flags.
KnownHostsFiles(ips) ==
    [ips -> [hostname : {"printer"}, required : BOOLEAN, vip : BOOLEAN]]

\* The start-ups considered, as <<known_hosts_info, now_init>>: no known
\* host; one known host inside the network; one required known host outside
\* of it, which makes a third tracked address.
Startups ==
    ({ << >> } \X {1})
    \cup (KnownHostsFiles({ <<10, 0, 0, 10>> }) \X {1})
    \cup ({ f \in KnownHostsFiles({ <<10, 0, 0, 5>> }) :
                f[<<10, 0, 0, 5>>].required } \X {301})

\* The number of tracked addresses of the large start-up: more than the
\* pool has threads.
PoolSize == 66

(* ------------------------------ addresses ------------------------------ *)

\* int(ipaddress.ip_address(ip)): the 32-bit value of a dotted quad.
IpInt(ip) == ((ip[1] * 256 + ip[2]) * 256 + ip[3]) * 256 + ip[4]

\* sorted(S, key=int(ip_address)) as a sequence (line 98).
RECURSIVE SortedByInt(_)
SortedByInt(S) ==
    IF S = {} THEN << >>
    ELSE LET m == CHOOSE x \in S : \A y \in S : IpInt(x) <= IpInt(y)
         IN  <<m>> \o SortedByInt(S \ {m})

Range(s) == { s[i] : i \in 1..Len(s) }

(* ------------------------------ registry ------------------------------- *)

\* Variant: the start-up record does not say that it is from known_hosts.
KnownRecordUnflagged(info, now_init) ==
    [ hostname             |-> Some(info.hostname),
      required             |-> info.required,
      vip                  |-> info.vip,
      from_known_hosts     |-> FALSE,
      first_seen           |-> None,
      last_seen            |-> None,
      online               |-> FALSE,
      created_at           |-> Some(now_init),
      seen_before_baseline |-> FALSE ]

\* The record created at start-up for a known_hosts entry (lines 104-115).
\* seen_before_baseline = FALSE stands for the key being absent, which is
\* how every reader sees it: d.get("seen_before_baseline", False).
KnownRecord(info, now_init) ==
    [ hostname             |-> Some(info.hostname),
      required             |-> info.required,
      vip                  |-> info.vip,
      from_known_hosts     |-> TRUE,
      first_seen           |-> None,
      last_seen            |-> None,
      online               |-> FALSE,
      created_at           |-> Some(now_init),
      seen_before_baseline |-> FALSE ]

\* Variant: the new record gets its creation time only.
DynamicRecordUnseen(now) ==
    [ hostname             |-> None,
      required             |-> FALSE,
      vip                  |-> FALSE,
      from_known_hosts     |-> FALSE,
      first_seen           |-> None,
      last_seen            |-> None,
      online               |-> TRUE,
      created_at           |-> Some(now),
      seen_before_baseline |-> FALSE ]

\* The record created for a new dynamic device (lines 130-141).
DynamicRecord(now) ==
    [ hostname             |-> None,
      required             |-> FALSE,
      vip                  |-> FALSE,
      from_known_hosts     |-> FALSE,
      first_seen           |-> Some(now),
      last_seen            |-> Some(now),
      online               |-> TRUE,
      created_at           |-> Some(now),
      seen_before_baseline |-> FALSE ]

\* Variant: first_seen is overwritten by every successful probe.
FirstSeenOverwritten(entry, now) == Some(now)

\* first_seen after a successful probe of an existing entry (lines 143-144).
FirstSeenAfterSuccess(entry, now) ==
    IF entry.first_seen = None THEN Some(now) ELSE entry.first_seen

\* Variant: a failed probe of an unknown address creates an offline record.
ScanHostUpdateTrackingAll(devs, ip, ok, now) ==
    IF ip \notin DOMAIN devs
    THEN [x \in DOMAIN devs \cup {ip} |->
             IF x = ip THEN [DynamicRecord(now) EXCEPT !.online = ok] ELSE devs[x]]
    ELSE IF ok
         THEN [devs EXCEPT ![ip] =
                  [@ EXCEPT !.first_seen = FirstSeenAfterSuccess(devs[ip], now),
                            !.last_seen  = Some(now),
                            !.online     = TRUE]]
         ELSE [devs EXCEPT ![ip].online = FALSE]

\* Variant: a successful probe of an existing record only sets online.
ScanHostUpdateOnlineOnly(devs, ip, ok, now) ==
    IF ok
    THEN IF ip \notin DOMAIN devs
         THEN [x \in DOMAIN devs \cup {ip} |->
                  IF x = ip THEN DynamicRecord(now) ELSE devs[x]]
         ELSE [devs EXCEPT ![ip].online = TRUE]
    ELSE IF ip \notin DOMAIN devs
         THEN devs
         ELSE [devs EXCEPT ![ip].online = FALSE]

\* Variant: a successful probe replaces the record by a fresh dynamic one.
ScanHostUpdateReplacing(devs, ip, ok, now) ==
    IF ok
    THEN [x \in DOMAIN devs \cup {ip} |->
             IF x = ip THEN DynamicRecord(now) ELSE devs[x]]
    ELSE IF ip \notin DOMAIN devs
         THEN devs
         ELSE [devs EXCEPT ![ip].online = FALSE]

\* The body of scan_host under the lock (lines 124-153): the registry after
\* one probe outcome is applied.
ScanHostUpdate(devs, ip, ok, now) ==
    IF ok
    THEN IF ip \notin DOMAIN devs
         THEN [x \in DOMAIN devs \cup {ip} |->
                  IF x = ip THEN DynamicRecord(now) ELSE devs[x]]
         ELSE [devs EXCEPT ![ip] =
                  [@ EXCEPT !.first_seen = FirstSeenAfterSuccess(devs[ip], now),
                            !.last_seen  = Some(now),
                            !.online     = TRUE]]
    ELSE IF ip \notin DOMAIN devs
         THEN devs
         ELSE [devs EXCEPT ![ip].online = FALSE]

\* Variant: the guard is missing and every bookkeeping pass marks.
MarksBaselineEveryPass(first, done) == TRUE

\* Whether the first bookkeeping pass marks the baseline (line 168).
MarksBaseline(first, done) == first /\ ~done

\* Variant: only the records already seen online are marked.
MarkBaselineSeenOnly(devs, first, done) ==
    IF MarksBaseline(first, done)
    THEN [x \in DOMAIN devs |->
             [devs[x] EXCEPT !.seen_before_baseline = (devs[x].first_seen # None)]]
    ELSE devs

\* Variant: the records from known_hosts are left unmarked.
MarkBaselineDynamicOnly(devs, first, done) ==
    IF MarksBaseline(first, done)
    THEN [x \in DOMAIN devs |->
             IF devs[x].from_known_hosts THEN devs[x]
             ELSE [devs[x] EXCEPT !.seen_before_baseline = TRUE]]
    ELSE devs

\* Lines 168-172: every record present is marked.
MarkBaseline(devs, first, done) ==
    IF MarksBaseline(first, done)
    THEN [x \in DOMAIN devs |-> [devs[x] EXCEPT !.seen_before_baseline = TRUE]]
    ELSE devs

\* Variant: known and required records are not exempt from the clean-up.
StaleAlsoKnown(d, now) ==
    /\ ~d.online
    /\ now - OrElse(d.last_seen, d.created_at, now) > OFFLINE_FORGET_SECONDS

\* Variant: the threshold is compared with >= instead of >.
StaleAtThreshold(d, now) ==
    /\ ~(d.from_known_hosts \/ d.required)
    /\ ~d.online
    /\ now - OrElse(d.last_seen, d.created_at, now) >= OFFLINE_FORGET_SECONDS

\* Lines 177-183: whether the clean-up pass deletes record d at time now.
Stale(d, now) ==
    /\ ~(d.from_known_hosts \/ d.required)
    /\ ~d.online
    /\ now - OrElse(d.last_seen, d.created_at, now) > OFFLINE_FORGET_SECONDS

\* Variant: records marked at the baseline are kept like known hosts.
EvictUnmarkedOnly(devs, now) ==
    LET to_delete == { x \in DOMAIN devs :
                          Stale(devs[x], now) /\ ~devs[x].seen_before_baseline }
    IN  [x \in DOMAIN devs \ to_delete |-> devs[x]]

\* Lines 175-185: the registry after the clean-up pass.
Evict(devs, now) ==
    LET to_delete == { x \in DOMAIN devs : Stale(devs[x], now) }
    IN  [x \in DOMAIN devs \ to_delete |-> devs[x]]

(* -------------------------------- view --------------------------------- *)

\* Variant: every offline record is filtered out.
VisibleOnlineOnly(d) == d.online

\* Variant: the check for an offline VIP is missing.
VisibleNoVipCheck(d) ==
    IF ~d.online
    THEN d.required /\ d.from_known_hosts
    ELSE TRUE

\* The filter of lines 422-431.
Visible(d) ==
    IF ~d.online
    THEN ~d.vip /\ d.required /\ d.from_known_hosts
    ELSE TRUE

\* now - t for an optional t (lines 436-437).
Ago(now, t) == IF t # None THEN Some(now - t[1]) ELSE None

\* Variant: seen_before_baseline is not consulted.
IsNewIgnoringBaseline(d, now, done) ==
    /\ d.online
    /\ d.first_seen # None
    /\ done
    /\ Ago(now, d.first_seen) # None
    /\ Ago(now, d.first_seen)[1] <= NEW_DEVICE_WINDOW_SECONDS

\* Lines 441-448.
IsNew(d, now, done) ==
    /\ d.online
    /\ d.first_seen # None
    /\ done
    /\ ~d.seen_before_baseline
    /\ Ago(now, d.first_seen) # None
    /\ Ago(now, d.first_seen)[1] <= NEW_DEVICE_WINDOW_SECONDS

\* Lines 455-462.
Group(d, is_new) ==
    IF d.from_known_hosts /\ d.required THEN 0
    ELSE IF d.vip /\ d.online THEN 1
    ELSE IF is_new THEN 2
    ELSE 3

\* The dictionary appended to result for one device (lines 464-474).
Entry(ip, d, now, done) ==
    [ ip                    |-> ip,
      hostname              |-> d.hostname,
      required              |-> d.required,
      vip                   |-> d.vip,
      online                |-> d.online,
      age_seconds           |-> Ago(now, d.first_seen),
      last_seen_seconds_ago |-> Ago(now, d.last_seen),
      is_new                |-> IsNew(d, now, done),
      group                 |-> Group(d, IsNew(d, now, done)) ]

\* Variant: the list is sorted by address alone.
KeyLessEqByAddress(a, b) == IpInt(a.ip) <= IpInt(b.ip)

\* The sort key of line 476 compared as Python compares tuples.
KeyLessEq(a, b) ==
    \/ a.group < b.group
    \/ a.group = b.group /\ IpInt(a.ip) <= IpInt(b.ip)

\* result.sort(key=...) (line 476).  The keys of a result are pairwise
\* different (one entry per ip), so the sorted list does not depend on the
\* order in which the dictionary was iterated.
RECURSIVE SortResult(_)
SortResult(S) ==
    IF S = {} THEN << >>
    ELSE LET m == CHOOSE x \in S : \A y \in S : KeyLessEq(x, y)
         IN  <<m>> \o SortResult(S \ {m})

\* Lines 414-476: the list built and sorted under the lock.
BuildResult(devs, now, done) ==
    SortResult({ Entry(ip, devs[ip], now, done) :
                 ip \in { x \in DOMAIN devs : Visible(devs[x]) } })

\* dev.pop("group", None) (lines 478-479).
PopGroup(dev) == [k \in DOMAIN dev \ {"group"} |-> dev[k]]

\* The "devices" list of the JSON answer (lines 478-484).
Emit(res) == [i \in 1..Len(res) |-> PopGroup(res[i])]

(* --------------------------- initial state ----------------------------- *)

\* Module start-up (lines 90-115) for one known_hosts file, and the idle
\* threads: scan_loop about to enter its loop, no request being served.
InitWith(known_hosts_info, now_init) ==
    /\ clock = now_init
    /\ hosts = SortedByInt(NETWORK_HOSTS \cup DOMAIN known_hosts_info)
    /\ devices = [ip \in DOMAIN known_hosts_info |->
                     KnownRecord(known_hosts_info[ip], now_init)]
    /\ baseline_done = FALSE
    /\ lock = "free"
    /\ first_iteration = TRUE
    /\ loop_pc = "map"
    /\ loop_now = None
    /\ sleep_start = None
    /\ task_pc = [ip \in NETWORK_HOSTS \cup DOMAIN known_hosts_info |-> "idle"]
    /\ task_ok = [ip \in NETWORK_HOSTS \cup DOMAIN known_hosts_info |-> FALSE]
    /\ task_now = [ip \in NETWORK_HOSTS \cup DOMAIN known_hosts_info |-> None]
    /\ probed = [ip \in NETWORK_HOSTS \cup DOMAIN known_hosts_info |-> 0]
    /\ api_pc = "idle"
    /\ api_now = None
    /\ result = << >>
    /\ first_set = [ip \in NETWORK_HOSTS \cup DOMAIN known_hosts_info |-> None]

Init ==
    \E start \in Startups : InitWith(start[1], start[2])

(* -------------------------------- time --------------------------------- *)

\* The values the clock can have at a later moment when it is c now: time
\* does not run backwards and passes in whole TickSteps.
Later(c) == { t \in c..MaxTime : \E d \in TickSteps : (t - c) % d = 0 }

(* ----------------------------- scan tasks ------------------------------ *)

\* The tasks a pool thread is running.
Running == { ip \in DOMAIN task_pc : task_pc[ip] \in {"ping", "wait", "locked"} }

\* The task at the head of the executor's work queue: tasks are queued in
\* the order of `hosts` and taken first in, first out.
HeadOfQueue(ip) ==
    \E i \in 1..Len(hosts) :
        /\ hosts[i] = ip
        /\ task_pc[ip] = "queued"
        /\ \A j \in 1..(i - 1) : task_pc[hosts[j]] # "queued"

\* Variant: the pool starts a thread for every queued task.
WorkerAlwaysFree(running) == TRUE

\* Whether the pool has a thread for one more task (max_workers, line 161).
WorkerFree(running) == Cardinality(running) < MAX_WORKERS

\* Variant: the lock is taken before ping_ip is called and kept over it.
TaskStartHoldingLock(ip) ==
    /\ HeadOfQueue(ip)
    /\ WorkerFree(Running)
    /\ lock = "free"
    /\ lock' = "scan_host"
    /\ task_pc' = [task_pc EXCEPT ![ip] = "ping"]
    /\ probed' = [probed EXCEPT ![ip] = @ + 1]
    /\ UNCHANGED <<devices, baseline_done, hosts, clock, first_iteration,
                   loop_pc, loop_now, sleep_start, task_ok, task_now,
                   api_pc, api_now, result, first_set>>

\* A pool thread takes the next task and calls ping_ip (line 121).
TaskStart(ip) ==
    /\ HeadOfQueue(ip)
    /\ WorkerFree(Running)
    /\ task_pc' = [task_pc EXCEPT ![ip] = "ping"]
    /\ probed' = [probed EXCEPT ![ip] = @ + 1]
    /\ UNCHANGED <<devices, baseline_done, hosts, lock, clock, first_iteration,
                   loop_pc, loop_now, sleep_start, task_ok, task_now,
                   api_pc, api_now, result, first_set>>

\* ping_ip returns and the time is read (lines 121-122).
PingReturn(ip, ok) ==
    /\ task_pc[ip] = "ping"
    /\ task_pc' = [task_pc EXCEPT ![ip] = "wait"]
    /\ task_ok' = [task_ok EXCEPT ![ip] = ok]
    /\ task_now' = [task_now EXCEPT ![ip] = Some(clock)]
    /\ UNCHANGED <<devices, baseline_done, hosts, lock, clock, first_iteration,
                   loop_pc, loop_now, sleep_start, probed,
                   api_pc, api_now, result, first_set>>

\* `with devices_lock:` is entered (line 123).
TaskAcquire(ip) ==
    /\ task_pc[ip] = "wait"
    /\ lock = "free"
    /\ lock' = "scan_host"
    /\ task_pc' = [task_pc EXCEPT ![ip] = "locked"]
    /\ UNCHANGED <<devices, baseline_done, hosts, clock, first_iteration,
                   loop_pc, loop_now, sleep_start, task_ok, task_now, probed,
                   api_pc, api_now, result, first_set>>

\* The locked body of scan_host runs and the lock is released (lines 124-153).
TaskUpdate(ip) ==
    /\ task_pc[ip] = "locked"
    /\ devices' = ScanHostUpdate(devices, ip, task_ok[ip], task_now[ip][1])
    /\ lock' = "free"
    /\ task_pc' = [task_pc EXCEPT ![ip] = "done"]
    /\ task_ok' = [task_ok EXCEPT ![ip] = FALSE]
    /\ task_now' = [task_now EXCEPT ![ip] = None]
    /\ first_set' = [first_set EXCEPT ![ip] =
                        IF @ = None /\ ip \in DOMAIN devices'
                        THEN devices'[ip].first_seen ELSE @]
    /\ UNCHANGED <<baseline_done, hosts, clock, first_iteration,
                   loop_pc, loop_now, sleep_start, probed,
                   api_pc, api_now, result>>

(* ------------------------------ scan loop ------------------------------ *)

\* executor.map(scan_host, hosts): one task per tracked address (line 162).
LoopMap ==
    /\ loop_pc = "map"
    /\ task_pc' = [ip \in DOMAIN task_pc |->
                      IF ip \in Range(hosts) THEN "queued" ELSE task_pc[ip]]
    /\ probed' = [ip \in DOMAIN probed |-> 0]
    /\ loop_pc' = "join"
    /\ UNCHANGED <<devices, baseline_done, hosts, lock, clock, first_iteration,
                   loop_now, sleep_start, task_ok, task_now,
                   api_pc, api_now, result, first_set>>

\* Variant: the pool is left without waiting for the tasks still running.
NoneQueued(pcs) == \A ip \in DOMAIN pcs : pcs[ip] # "queued"

\* Whether the executor's shutdown(wait=True) returns (end of line 161's with).
AllDone(pcs) == \A ip \in DOMAIN pcs : pcs[ip] = "done"

\* The `with ThreadPoolExecutor` block is left.
LoopJoin ==
    /\ loop_pc = "join"
    /\ AllDone(task_pc)
    /\ loop_pc' = "now"
    /\ UNCHANGED <<devices, baseline_done, hosts, lock, clock, first_iteration,
                   loop_now, sleep_start, task_pc, task_ok, task_now, probed,
                   api_pc, api_now, result, first_set>>

\* now = time.time() (line 164).
LoopNow ==
    /\ loop_pc = "now"
    /\ clock' \in Later(clock)
    /\ loop_now' = Some(clock')
    /\ loop_pc' = "wait"
    /\ UNCHANGED <<devices, baseline_done, hosts, lock, first_iteration,
                   sleep_start, task_pc, task_ok, task_now, probed,
                   api_pc, api_now, result, first_set>>

\* `with devices_lock:` is entered (line 165).
LoopAcquire ==
    /\ loop_pc = "wait"
    /\ lock = "free"
    /\ lock' = "scan_loop"
    /\ loop_pc' = "locked"
    /\ UNCHANGED <<devices, baseline_done, hosts, clock, first_iteration,
                   loop_now, sleep_start, task_pc, task_ok, task_now, probed,
                   api_pc, api_now, result, first_set>>

\* Variant: the next sweep starts straight after the clean-up, without sleep.
BookkeepingWithoutSleep ==
    /\ loop_pc = "locked"
    /\ devices' = Evict(MarkBaseline(devices, first_iteration, baseline_done),
                        loop_now[1])
    /\ baseline_done' = (baseline_done \/ MarksBaseline(first_iteration, baseline_done))
    /\ first_iteration' =
           (first_iteration /\ ~MarksBaseline(first_iteration, baseline_done))
    /\ lock' = "free"
    /\ loop_now' = None
    /\ sleep_start' = None
    /\ loop_pc' = "map"
    /\ UNCHANGED <<hosts, clock, task_pc, task_ok, task_now, probed,
                   api_pc, api_now, result, first_set>>

\* Baseline marking, then clean-up, under the lock; the lock is released and
\* time.sleep begins (lines 166-187).
Bookkeeping ==
    /\ loop_pc = "locked"
    /\ devices' = Evict(MarkBaseline(devices, first_iteration, baseline_done),
                        loop_now[1])
    /\ baseline_done' = (baseline_done \/ MarksBaseline(first_iteration, baseline_done))
    /\ first_iteration' =
           (first_iteration /\ ~MarksBaseline(first_iteration, baseline_done))
    /\ lock' = "free"
    /\ loop_now' = None
    /\ sleep_start' = Some(clock)
    /\ loop_pc' = "sleep"
    /\ UNCHANGED <<hosts, clock, task_pc, task_ok, task_now, probed,
                   api_pc, api_now, result, first_set>>

\* time.sleep(SCAN_INTERVAL_SECONDS) returns (line 187).
LoopWake ==
    /\ loop_pc = "sleep"
    /\ clock' \in Later(clock)
    /\ clock' >= sleep_start[1] + SCAN_INTERVAL_SECONDS
    /\ sleep_start' = None
    /\ loop_pc' = "map"
    /\ UNCHANGED <<devices, baseline_done, hosts, lock, first_iteration,
                   loop_now, task_pc, task_ok, task_now, probed,
                   api_pc, api_now, result, first_set>>

(* ----------------------------- api_devices ----------------------------- *)

\* A request arrives; now = time.time() (line 412).
ApiRequest ==
    /\ api_pc = "idle"
    /\ api_now' = Some(clock)
    /\ api_pc' = "wait"
    /\ UNCHANGED <<devices, baseline_done, hosts, lock, clock, first_iteration,
                   loop_pc, loop_now, sleep_start, task_pc, task_ok, task_now,
                   probed, result, first_set>>

\* `with devices_lock:` is entered (line 413).
ApiAcquire ==
    /\ api_pc = "wait"
    /\ lock = "free"
    /\ lock' = "api_devices"
    /\ api_pc' = "locked"
    /\ UNCHANGED <<devices, baseline_done, hosts, clock, first_iteration,
                   loop_pc, loop_now, sleep_start, task_pc, task_ok, task_now,
                   probed, api_now, result, first_set>>

\* The list is built and sorted under the lock (lines 414-476).
ApiBuild ==
    /\ api_pc = "locked"
    /\ result' = BuildResult(devices, api_now[1], baseline_done)
    /\ api_pc' = "built"
    /\ UNCHANGED <<devices, baseline_done, hosts, lock, clock, first_iteration,
                   loop_pc, loop_now, sleep_start, task_pc, task_ok, task_now,
                   probed, api_now, first_set>>

\* The lock is released, the groups are popped and the answer is returned
\* (lines 476-484).
ApiReturn ==
    /\ api_pc = "built"
    /\ lock' = "free"
    /\ result' = << >>
    /\ api_now' = None
    /\ api_pc' = "idle"
    /\ UNCHANGED <<devices, baseline_done, hosts, clock, first_iteration,
                   loop_pc, loop_now, sleep_start, task_pc, task_ok, task_now,
                   probed, first_set>>

(* ---------------------------- specification ---------------------------- *)

TaskStep ==
    \/ \E ip \in DOMAIN task_pc : TaskStart(ip)
    \/ \E ip \in DOMAIN task_pc : \E ok \in BOOLEAN : PingReturn(ip, ok)
    \/ \E ip \in DOMAIN task_pc : TaskAcquire(ip)
    \/ \E ip \in DOMAIN task_pc : TaskUpdate(ip)

LoopStep == LoopMap \/ LoopJoin \/ LoopNow \/ LoopAcquire \/ Bookkeeping \/ LoopWake

ApiStep == ApiRequest \/ ApiAcquire \/ ApiBuild \/ ApiReturn

Next == TaskStep \/ LoopStep \/ ApiStep

Spec == Init /\ [][Next]_vars

(* ----------------------------- large pool ------------------------------ *)

\* A known_hosts file that, with the network's own addresses, makes PoolSize
\* tracked addresses; none of its hosts is required or a VIP.
PoolKnownHosts ==
    [ip \in { <<10, 0, 1, i>> : i \in 1..(PoolSize - Cardinality(NETWORK_HOSTS)) } |->
        [hostname |-> "printer", required |-> FALSE, vip |-> FALSE]]

PoolInit == InitWith(PoolKnownHosts, 1)

\* Every task submitted before that of ip has finished.
InOrder(ip) ==
    \E i \in 1..Len(hosts) :
        /\ hosts[i] = ip
        /\ \A j \in 1..(i - 1) : task_pc[hosts[j]] = "done"

\* The sweeps of the large start-up in which no address answers and the
\* probes return in the order in which they were started; no request is
\* served.  The pool starts tasks whenever it has a thread.
PoolNext ==
    \/ \E ip \in DOMAIN task_pc : TaskStart(ip)
    \/ \E ip \in DOMAIN task_pc : InOrder(ip) /\ PingReturn(ip, FALSE)
    \/ \E ip \in DOMAIN task_pc : TaskAcquire(ip)
    \/ \E ip \in DOMAIN task_pc : TaskUpdate(ip)
    \/ LoopMap \/ LoopJoin \/ LoopNow \/ LoopAcquire \/ Bookkeeping \/ LoopWake

PoolSpec == PoolInit /\ [][PoolNext]_vars

(* ------------------------------ fairness ------------------------------- *)

\* The start-up without known hosts.
LiveInit == InitWith(<< >>, 1)

\* Every thread that can run does run; a thread waiting for devices_lock
\* gets it if it is free again and again; ping_ip returns.  Requests are
\* not required to arrive.
Fairness ==
    /\ WF_vars(LoopMap) /\ WF_vars(LoopJoin) /\ WF_vars(LoopNow)
    /\ SF_vars(LoopAcquire) /\ WF_vars(Bookkeeping) /\ WF_vars(LoopWake)
    /\ SF_vars(ApiAcquire) /\ WF_vars(ApiBuild) /\ WF_vars(ApiReturn)
    /\ \A ip \in NETWORK_HOSTS :
          /\ WF_vars(TaskStart(ip))
          /\ WF_vars(\E ok \in BOOLEAN : PingReturn(ip, ok))
          /\ SF_vars(TaskAcquire(ip))
          /\ WF_vars(TaskUpdate(ip))

LiveSpec == LiveInit /\ [][Next]_vars /\ Fairness

(* ------------------------------- claims -------------------------------- *)

\* The step in which scan_host applies the outcome of its probe of ip.
IsProbeOutcome(ip) == task_pc[ip] = "locked" /\ task_pc'[ip] = "done"

\* The bookkeeping step of a sweep.
IsBookkeeping == loop_pc = "locked" /\ loop_pc' = "sleep"

\* The state in which a view has just been built from `devices`.
ViewBuilt == api_pc = "built"

\* The addresses in the view.
ViewIps == { result[i].ip : i \in 1..Len(result) }

\* first_seen of an address: that of its record, if it has one.
FirstSeenOf(devs, ip) == IF ip \in DOMAIN devs THEN devs[ip].first_seen ELSE None

\* lastSeen, or createdAt when lastSeen is unset.
LastSeenOrCreated(d) == IF d.last_seen # None THEN d.last_seen[1] ELSE d.created_at[1]

\* C1 (as claimed): for every address, once firstSeen has been set for it,
\* no later probe outcome for that address changes firstSeen.
C1_FirstSeenFixedPerAddress ==
    [][\A ip \in DOMAIN task_pc :
          (IsProbeOutcome(ip) /\ first_set[ip] # None)
              => FirstSeenOf(devices', ip) = FirstSeenOf(devices, ip)]_vars

\* C1 (amended): while an address keeps its record, no step changes a
\* firstSeen that is set, and no probe outcome removes the record; only the
\* bookkeeping step removes records, and a successful probe after that
\* creates a new record whose firstSeen is later than the one set before.
C1_FirstSeenFixedPerRecord ==
    [][\A ip \in DOMAIN task_pc :
          /\ (ip \in DOMAIN devices /\ devices[ip].first_seen # None)
                => IF ip \in DOMAIN devices'
                   THEN devices'[ip].first_seen = devices[ip].first_seen
                   ELSE IsBookkeeping
          /\ (IsProbeOutcome(ip) /\ first_set[ip] # None /\ ip \notin DOMAIN devices
                 /\ ip \in DOMAIN devices')
                => devices'[ip].first_seen[1] > first_set[ip][1]]_vars

\* C1 witness: a record that a later successful probe has updated.
C1_Witness ==
    \E ip \in DOMAIN devices :
        /\ devices[ip].first_seen # None
        /\ devices[ip].last_seen[1] > devices[ip].first_seen[1]

\* C2: the baseline flag is false until the first bookkeeping step, which
\* sets it; it never becomes false again, and right after that step every
\* record in the registry has seenBeforeBaseline set.
C2_BaselineOnce ==
    /\ ~baseline_done
    /\ [][/\ IsBookkeeping => baseline_done'
          /\ ~IsBookkeeping => (baseline_done' = baseline_done)
          /\ baseline_done => baseline_done'
          /\ (IsBookkeeping /\ ~baseline_done)
                => \A ip \in DOMAIN devices' : devices'[ip].seen_before_baseline
          /\ (IsBookkeeping /\ baseline_done)
                => \A ip \in DOMAIN devices' :
                      devices'[ip].seen_before_baseline
                          = devices[ip].seen_before_baseline]_vars

\* C2 witness: right after the first bookkeeping step, with a known host no
\* probe has reached and a discovered device, both marked.
C2_Witness ==
    /\ loop_pc = "sleep"
    /\ clock = sleep_start[1]
    /\ \E ip \in DOMAIN devices :
          /\ devices[ip].from_known_hosts
          /\ devices[ip].first_seen = None
          /\ devices[ip].seen_before_baseline
    /\ \E ip \in DOMAIN devices :
          /\ ~devices[ip].from_known_hosts
          /\ devices[ip].seen_before_baseline

\* C3 (as claimed): every view contains every record that is offline,
\* required and from the static list, whatever its other fields are.
C3_OfflineRequiredStaticShown ==
    ViewBuilt =>
        \A ip \in DOMAIN devices :
            (~devices[ip].online /\ devices[ip].required
                 /\ devices[ip].from_known_hosts)
                => ip \in ViewIps

\* C3 (amended): every view contains every record that is offline,
\* required, from the static list and not a VIP.
C3_OfflineRequiredStaticNonVipShown ==
    ViewBuilt =>
        \A ip \in DOMAIN devices :
            (~devices[ip].online /\ devices[ip].required
                 /\ devices[ip].from_known_hosts /\ ~devices[ip].vip)
                => \E i \in 1..Len(result) :
                      /\ result[i].ip = ip
                      /\ ~result[i].online
                      /\ result[i].required

\* C3 witness: a view with an offline required known host in it.
C3_Witness ==
    /\ ViewBuilt
    /\ \E i \in 1..Len(result) :
          /\ ~result[i].online
          /\ devices[result[i].ip].from_known_hosts
          /\ devices[result[i].ip].required

\* C4: a view never contains an offline record that is a VIP, or is not
\* required, or is not from the static list; every online record is in it.
C4_VisibilityFilter ==
    ViewBuilt =>
        /\ \A i \in 1..Len(result) :
              /\ result[i].ip \in DOMAIN devices
              /\ result[i].online = devices[result[i].ip].online
              /\ ~devices[result[i].ip].online
                    => /\ ~devices[result[i].ip].vip
                       /\ devices[result[i].ip].required
                       /\ devices[result[i].ip].from_known_hosts
        /\ \A ip \in DOMAIN devices : devices[ip].online => ip \in ViewIps

\* C4 witness: a view that shows an online record while the registry holds
\* an offline VIP and an offline dynamic record, neither of them shown.
C4_Witness ==
    /\ ViewBuilt
    /\ \E i \in 1..Len(result) : result[i].online
    /\ \E ip \in DOMAIN devices \ ViewIps : devices[ip].vip
    /\ \E ip \in DOMAIN devices \ ViewIps : ~devices[ip].from_known_hosts

\* C5: a bookkeeping step run at time now removes exactly the records that
\* are not from the static list, not required, offline, and whose lastSeen
\* (createdAt when lastSeen is unset) lies more than the forget threshold
\* of 300 s before now; no other step removes a record.
C5_EvictionExact ==
    [][/\ IsBookkeeping =>
             DOMAIN devices' = DOMAIN devices \
                 { ip \in DOMAIN devices :
                     /\ ~devices[ip].from_known_hosts
                     /\ ~devices[ip].required
                     /\ ~devices[ip].online
                     /\ loop_now[1] - LastSeenOrCreated(devices[ip]) > 300 }
       /\ ~IsBookkeeping => DOMAIN devices \subseteq DOMAIN devices']_vars

\* C5 witness: right after a bookkeeping step, one dynamic record has been
\* removed and another, offline for exactly the threshold, has been kept.
C5_Witness ==
    /\ loop_pc = "sleep"
    /\ clock = sleep_start[1]
    /\ \E ip \in DOMAIN first_set :
          first_set[ip] # None /\ ip \notin DOMAIN devices
    /\ \E ip \in DOMAIN devices :
          /\ ~devices[ip].from_known_hosts
          /\ ~devices[ip].online
          /\ clock - devices[ip].last_seen[1] = OFFLINE_FORGET_SECONDS

\* C6: the tracked set is the network's hosts and the static-list addresses,
\* each listed once; no address is probed twice in a sweep; and from the
\* moment the sweep is left until the next one starts (bookkeeping included)
\* every address has been probed once and no task is still in flight.
C6_SweepProbesEachOnce ==
    /\ Range(hosts) = NETWORK_HOSTS \cup
                      { ip \in DOMAIN devices : devices[ip].from_known_hosts }
    /\ Cardinality(Range(hosts)) = Len(hosts)
    /\ DOMAIN task_pc = Range(hosts)
    /\ \A ip \in Range(hosts) : probed[ip] <= 1
    /\ loop_pc \in {"now", "wait", "locked", "sleep"} =>
          \A ip \in Range(hosts) : probed[ip] = 1 /\ task_pc[ip] = "done"

\* C6 witness: bookkeeping is about to run after a sweep of three addresses,
\* one of them a static-list address outside the network.
C6_Witness ==
    /\ loop_pc = "locked"
    /\ Len(hosts) = 3
    /\ Range(hosts) \ NETWORK_HOSTS # {}
    /\ \A ip \in Range(hosts) : probed[ip] = 1

\* C7: for every record in a view, is_new is true exactly if the record is
\* online, firstSeen is set, the baseline flag is set, seenBeforeBaseline is
\* false and now - firstSeen is at most 300 s.
C7_IsNewExactly ==
    ViewBuilt =>
        \A i \in 1..Len(result) :
            LET d == devices[result[i].ip] IN
            /\ result[i].is_new \in BOOLEAN
            /\ result[i].is_new <=>
                  /\ d.online
                  /\ d.first_seen # None
                  /\ baseline_done
                  /\ ~d.seen_before_baseline
                  /\ api_now[1] - d.first_seen[1] <= 300
            /\ d.seen_before_baseline => ~result[i].is_new
            /\ ~baseline_done => ~result[i].is_new

\* C7 witness: a view with a new device, a device that is not new because it
\* was marked at the baseline, and the baseline flag set.
C7_Witness ==
    /\ ViewBuilt
    /\ \E i \in 1..Len(result) : result[i].is_new
    /\ \E i \in 1..Len(result) :
          /\ ~result[i].is_new
          /\ result[i].online
          /\ devices[result[i].ip].seen_before_baseline
          /\ api_now[1] - devices[result[i].ip].first_seen[1] <= 300

\* C8: a failed probe of an address without a record creates no record and
\* leaves the registry and the baseline flag as they were.
C8_FailedUnknownIsNoOp ==
    [][\A ip \in DOMAIN task_pc :
          (IsProbeOutcome(ip) /\ ~task_ok[ip] /\ ip \notin DOMAIN devices)
              => /\ devices' = devices
                 /\ baseline_done' = baseline_done]_vars

\* C8 witness: the failed probe of an unknown address has been applied and
\* the address has no record.
C8_Witness ==
    \E ip \in DOMAIN task_pc :
        /\ task_pc[ip] = "done"
        /\ loop_pc = "join"
        /\ ip \notin DOMAIN devices

\* The sort group of a record as the claim defines it.
C9_Group(d, is_new) ==
    IF d.from_known_hosts /\ d.required THEN 0
    ELSE IF d.vip /\ d.online THEN 1
    ELSE IF is_new THEN 2
    ELSE 3

\* C9: the device list of a view is the visible records in strictly
\* ascending order of (group, numeric address); no address appears twice;
\* the emitted records do not carry the group.
C9_ViewSorted ==
    ViewBuilt =>
        /\ ViewIps = { ip \in DOMAIN devices :
                          \/ devices[ip].online
                          \/ /\ devices[ip].required
                             /\ devices[ip].from_known_hosts
                             /\ ~devices[ip].vip }
        /\ \A i \in 1..Len(result) : \A j \in 1..Len(result) :
              i < j =>
                 LET gi == C9_Group(devices[result[i].ip], result[i].is_new)
                     gj == C9_Group(devices[result[j].ip], result[j].is_new)
                 IN  /\ result[i].ip # result[j].ip
                     /\ \/ gi < gj
                        \/ gi = gj /\ IpInt(result[i].ip) < IpInt(result[j].ip)
        /\ Len(Emit(result)) = Len(result)
        /\ \A i \in 1..Len(result) :
              /\ DOMAIN Emit(result)[i] =
                    { "ip", "hostname", "required", "vip", "online",
                      "age_seconds", "last_seen_seconds_ago", "is_new" }
              /\ \A k \in DOMAIN Emit(result)[i] : Emit(result)[i][k] = result[i][k]

\* C9 witness: a view of three devices in which a device of a lower group
\* precedes one with a smaller address.
C9_Witness ==
    /\ ViewBuilt
    /\ Len(result) = 3
    /\ \E i \in 1..2 : IpInt(result[i].ip) > IpInt(result[i + 1].ip)

\* A dynamic record of ip is offline.
C10_OfflineDynamic(ip) ==
    /\ ip \in DOMAIN devices
    /\ ~devices[ip].from_known_hosts
    /\ ~devices[ip].required
    /\ ~devices[ip].online

\* C10: a bookkeeping step removes an offline dynamic record exactly if its
\* time exceeds the record's lastSeen by more than the forget threshold; no
\* view contains an offline dynamic record or an address without a record;
\* and an offline dynamic record is eventually removed unless a probe of its
\* address succeeds again (as long as the clock can still pass the
\* threshold).
C10_StaleDynamicRemoved ==
    /\ [][\A ip \in DOMAIN task_pc :
             (IsBookkeeping /\ C10_OfflineDynamic(ip))
                 => (ip \notin DOMAIN devices'
                        <=> loop_now[1] - devices[ip].last_seen[1] > 300)]_vars
    /\ [](ViewBuilt =>
             \A ip \in ViewIps : ip \in DOMAIN devices /\ ~C10_OfflineDynamic(ip))
    /\ \A ip \in NETWORK_HOSTS :
          (C10_OfflineDynamic(ip)
              /\ \E t \in Later(clock) : t - devices[ip].last_seen[1] > 300)
          ~> (ip \notin DOMAIN devices \/ devices[ip].online)

\* C10 witness: a view is built while a device that was discovered has been
\* removed and another dynamic record is offline.
C10_Witness ==
    /\ ViewBuilt
    /\ \E ip \in DOMAIN first_set :
          first_set[ip] # None /\ ip \notin DOMAIN devices
    /\ \E ip \in DOMAIN first_set : C10_OfflineDynamic(ip)

\* The entry of ip in the view, if it has one.
EntriesOf(ip) == { i \in 1..Len(result) : result[i].ip = ip }

\* C11: a record created while the baseline flag is set is created by a
\* successful probe without seenBeforeBaseline, and no later step sets it;
\* while such a record is online every view shows it, with is_new and group
\* 2 if now - firstSeen <= 300 and without is_new in group 3 otherwise.
\* (Once the flag is set, the records without seenBeforeBaseline are the
\* ones created after it: the first bookkeeping step marked all others.)
C11_NewAfterBaseline ==
    /\ [][\A ip \in DOMAIN task_pc :
             /\ (baseline_done /\ ip \notin DOMAIN devices /\ ip \in DOMAIN devices')
                   => /\ IsProbeOutcome(ip) /\ task_ok[ip]
                      /\ ~devices'[ip].seen_before_baseline
                      /\ ~devices'[ip].from_known_hosts
             /\ (baseline_done /\ ip \in DOMAIN devices /\ ip \in DOMAIN devices')
                   => (devices'[ip].seen_before_baseline
                          = devices[ip].seen_before_baseline)]_vars
    /\ [](ViewBuilt =>
             \A ip \in DOMAIN devices :
                 (baseline_done /\ ~devices[ip].seen_before_baseline
                      /\ devices[ip].online)
                     => /\ Cardinality(EntriesOf(ip)) = 1
                        /\ \A i \in EntriesOf(ip) :
                              IF api_now[1] - devices[ip].first_seen[1] <= 300
                              THEN result[i].is_new /\ result[i].group = 2
                              ELSE ~result[i].is_new /\ result[i].group = 3)

\* C11 witness: a view shows as new a device whose address had an earlier
\* record, marked at the baseline and evicted since.
C11_Witness ==
    /\ ViewBuilt
    /\ \E i \in 1..Len(result) :
          /\ result[i].is_new
          /\ result[i].group = 2
          /\ first_set[result[i].ip] # None
          /\ first_set[result[i].ip] # devices[result[i].ip].first_seen

\* A static-list record that is required, not a VIP, and has never answered.
C12_SilentRequired(ip) ==
    /\ ip \in DOMAIN devices
    /\ devices[ip].from_known_hosts
    /\ devices[ip].required
    /\ ~devices[ip].vip
    /\ devices[ip].first_seen = None

\* C12: a required, non-VIP static-list record stays in the registry with
\* its flags in every step, and while it has never answered a probe every
\* view (also before the baseline) shows it exactly once, offline, required,
\* not new, with null age_seconds and last_seen_seconds_ago.
C12_SilentRequiredShown ==
    /\ [][\A ip \in DOMAIN task_pc :
             (ip \in DOMAIN devices /\ devices[ip].from_known_hosts
                  /\ devices[ip].required /\ ~devices[ip].vip)
                 => /\ ip \in DOMAIN devices'
                    /\ devices'[ip].from_known_hosts
                    /\ devices'[ip].required
                    /\ ~devices'[ip].vip]_vars
    /\ [](\A ip \in DOMAIN task_pc :
             C12_SilentRequired(ip) =>
                 /\ ~devices[ip].online
                 /\ devices[ip].last_seen = None
                 /\ ViewBuilt =>
                       /\ Cardinality(EntriesOf(ip)) = 1
                       /\ \A i \in EntriesOf(ip) :
                             /\ ~result[i].online
                             /\ result[i].required
                             /\ ~result[i].is_new
                             /\ result[i].age_seconds = None
                             /\ result[i].last_seen_seconds_ago = None)

\* C12 witness: such a record has stayed silent long past the forget
\* threshold and is in a view built after the baseline.
C12_Witness ==
    /\ ViewBuilt
    /\ baseline_done
    /\ \E ip \in DOMAIN devices :
          /\ C12_SilentRequired(ip)
          /\ ip \in ViewIps
          /\ api_now[1] - devices[ip].created_at[1] > OFFLINE_FORGET_SECONDS

\* C12 witness of the early view: such a record is in a view built before
\* the first sweep has completed.
C12_EarlyView ==
    /\ ViewBuilt
    /\ ~baseline_done
    /\ \E ip \in DOMAIN devices : C12_SilentRequired(ip) /\ ip \in ViewIps

\* The threads that are inside a `with devices_lock:` block.
LockHolders ==
    { ip \in DOMAIN task_pc : task_pc[ip] = "locked" }
        \cup (IF loop_pc = "locked" THEN {"scan_loop"} ELSE {})
        \cup (IF api_pc \in {"locked", "built"} THEN {"api_devices"} ELSE {})

\* The lock is held by exactly the threads inside a locked block, of which
\* there is at most one; a thread in ping_ip or in time.sleep is outside.
C13_LockDiscipline ==
    /\ Cardinality(LockHolders) <= 1
    /\ (lock = "free") <=> (LockHolders = {})
    /\ (lock = "scan_host") <=> (\E ip \in DOMAIN task_pc : task_pc[ip] = "locked")
    /\ (lock = "scan_loop") <=> (loop_pc = "locked")
    /\ (lock = "api_devices") <=> (api_pc \in {"locked", "built"})

\* C13: the lock is held only inside one probe-result update, one
\* bookkeeping pass or one view build, never over a probe or the sleep, by at
\* most one thread, and it is released by the step that ends that block;
\* hence a query waiting for the lock eventually gets it.
C13_LockShortAndFair ==
    /\ []C13_LockDiscipline
    /\ [][lock' # lock =>
             \/ lock = "free" /\ lock' \in {"scan_host", "scan_loop", "api_devices"}
             \/ /\ lock' = "free"
                /\ \/ lock = "scan_host" /\ \E ip \in DOMAIN task_pc : IsProbeOutcome(ip)
                   \/ lock = "scan_loop" /\ IsBookkeeping
                   \/ lock = "api_devices" /\ api_pc = "built"]_vars
    /\ [][devices' # devices => lock \in {"scan_host", "scan_loop"} /\ lock' = "free"]_vars
    /\ (api_pc = "wait") ~> (api_pc = "locked")

\* C13 witness: the query holds the lock while one probe is in progress and
\* another probe's outcome waits for the lock.
C13_Witness ==
    /\ api_pc = "locked"
    /\ \E ip \in DOMAIN task_pc : task_pc[ip] = "ping"
    /\ \E ip \in DOMAIN task_pc : task_pc[ip] = "wait"

\* C13 witness of the sleep: the query holds the lock while the engine sleeps.
C13_WhileSleeping == api_pc = "locked" /\ loop_pc = "sleep"

\* The engine's phases: the sweep is the executor block, the bookkeeping runs
\* from the reading of the time to the release of the lock.
Sweeping == loop_pc \in {"map", "join"}
BookkeepingPhase == loop_pc \in {"now", "wait", "locked"}
Sleeping == loop_pc = "sleep"

\* The order in which scan_loop moves through its positions.
C14_Cycle ==
    { <<"map", "join">>, <<"join", "now">>, <<"now", "wait">>,
      <<"wait", "locked">>, <<"locked", "sleep">>, <<"sleep", "map">> }

\* C14: the engine moves Sweeping -> Bookkeeping -> Sleeping -> Sweeping and
\* never otherwise; the bookkeeping pass is one step under the lock that
\* marks the baseline and then evicts; a sweep always reaches its sleep, and
\* a sleep from which time can still pass is followed by the next sweep.
C14_EngineCycle ==
    /\ [][loop_pc' # loop_pc => <<loop_pc, loop_pc'>> \in C14_Cycle]_vars
    /\ [][IsBookkeeping =>
             /\ lock = "scan_loop" /\ lock' = "free"
             /\ devices' = Evict(MarkBaseline(devices, first_iteration, baseline_done),
                                 loop_now[1])
             /\ (~baseline_done =>
                    /\ baseline_done'
                    /\ \A ip \in DOMAIN devices' : devices'[ip].seen_before_baseline)]_vars
    /\ [][devices' # devices /\ ~IsBookkeeping => Sweeping]_vars
    /\ Sweeping ~> BookkeepingPhase
    /\ BookkeepingPhase ~> Sleeping
    /\ (Sleeping /\ Later(clock) # {clock}) ~> Sweeping

\* C14 witness: a later sweep is under way, after a bookkeeping pass that
\* evicted a record and a sleep.
C14_Witness ==
    /\ loop_pc = "join"
    /\ baseline_done
    /\ \E ip \in DOMAIN task_pc :
          /\ task_pc[ip] = "ping"
          /\ first_set[ip] # None
          /\ ip \notin DOMAIN devices

\* The probes in flight: the tasks inside ping_ip.
ProbesInFlight == { ip \in DOMAIN task_pc : task_pc[ip] = "ping" }

\* C15: the probes in flight, and the tasks on a pool thread altogether, are
\* never more than MAX_WORKERS, also with more tracked addresses than that.
C15_ProbesWithinCap ==
    /\ Cardinality(ProbesInFlight) <= MAX_WORKERS
    /\ Cardinality(Running) <= MAX_WORKERS

\* C15 witness: with more tracked addresses than threads, MAX_WORKERS probes
\* are in flight and a task is still waiting in the queue.
C15_Witness ==
    /\ Len(hosts) > MAX_WORKERS
    /\ Cardinality(ProbesInFlight) = MAX_WORKERS
    /\ \E ip \in DOMAIN task_pc : task_pc[ip] = "queued"

\* C16: a successful probe outcome read at time now creates, for an address
\* without record, a dynamic record (not from the static list, not required,
\* no VIP, no hostname) that is online with firstSeen = lastSeen = createdAt
\* = now; for an address with a record it sets online and lastSeen = now, and
\* firstSeen = now only if firstSeen was unset.
C16_SuccessfulProbe ==
    [][\A ip \in DOMAIN task_pc :
          (IsProbeOutcome(ip) /\ task_ok[ip]) =>
              /\ ip \in DOMAIN devices'
              /\ devices'[ip].online
              /\ devices'[ip].last_seen = task_now[ip]
              /\ ip \notin DOMAIN devices =>
                    /\ ~devices'[ip].from_known_hosts
                    /\ ~devices'[ip].required
                    /\ ~devices'[ip].vip
                    /\ devices'[ip].hostname = None
                    /\ devices'[ip].first_seen = task_now[ip]
                    /\ devices'[ip].created_at = task_now[ip]
              /\ ip \in DOMAIN devices =>
                    devices'[ip].first_seen =
                        (IF devices[ip].first_seen = None
                         THEN task_now[ip] ELSE devices[ip].first_seen)]_vars

\* C16 witness: a static-list record whose firstSeen was set by its first
\* successful probe has been probed successfully again at a later time,
\* next to a dynamic record created by a successful probe.
C16_Witness ==
    /\ \E ip \in DOMAIN devices :
          /\ devices[ip].from_known_hosts
          /\ devices[ip].online
          /\ devices[ip].first_seen # None
          /\ devices[ip].last_seen[1] > devices[ip].first_seen[1]
    /\ \E ip \in DOMAIN devices :
          /\ ~devices[ip].from_known_hosts
          /\ devices[ip].online
          /\ devices[ip].first_seen = devices[ip].created_at

\* C17: applying a probe outcome to an address that has a record leaves that
\* record's hostname, required, vip, fromStaticList, createdAt and
\* seenBeforeBaseline as they were and changes no other address's record
\* (nor adds or removes one); a failed outcome changes nothing but online,
\* which becomes false.
C17_ProbeKeepsIdentity ==
    [][\A ip \in DOMAIN task_pc :
          (IsProbeOutcome(ip) /\ ip \in DOMAIN devices) =>
              /\ DOMAIN devices' = DOMAIN devices
              /\ \A x \in DOMAIN devices \ {ip} : devices'[x] = devices[x]
              /\ devices'[ip].hostname = devices[ip].hostname
              /\ devices'[ip].required = devices[ip].required
              /\ devices'[ip].vip = devices[ip].vip
              /\ devices'[ip].from_known_hosts = devices[ip].from_known_hosts
              /\ devices'[ip].created_at = devices[ip].created_at
              /\ devices'[ip].seen_before_baseline = devices[ip].seen_before_baseline
              /\ ~task_ok[ip] =>
                    devices' = [devices EXCEPT ![ip].online = FALSE]]_vars

\* C17 witness: a marked static-list record with a hostname has been seen
\* and then had a failed outcome applied, while another record exists.
C17_Witness ==
    \E ip \in DOMAIN devices :
        /\ task_pc[ip] = "done"
        /\ devices[ip].from_known_hosts
        /\ devices[ip].hostname # None
        /\ devices[ip].seen_before_baseline
        /\ ~devices[ip].online
        /\ devices[ip].last_seen # None
        /\ DOMAIN devices # {ip}

\* C18: in every state every record that is required or a VIP is a
\* static-list record.
C18_FlagsOnlyOnStatic ==
    \A ip \in DOMAIN devices :
        (devices[ip].required \/ devices[ip].vip) => devices[ip].from_known_hosts

\* C18 witness: after the baseline and a sweep, a static-list record that is
\* a VIP stands next to a dynamic record.
C18_Witness ==
    /\ baseline_done
    /\ \E ip \in DOMAIN devices :
          /\ devices[ip].vip
          /\ devices[ip].from_known_hosts
          /\ devices[ip].last_seen # None
    /\ \E ip \in DOMAIN devices :
          /\ ~devices[ip].from_known_hosts
          /\ ~devices[ip].required
          /\ ~devices[ip].vip

\* C19: in every state, so in every state a view is built from, each record
\* has firstSeen set exactly if lastSeen is set, has both set if it is
\* online, and has firstSeen <= lastSeen; hence every online device of a
\* view has age_seconds and last_seen_seconds_ago that are not null.
C19_SeenTimesConsistent ==
    /\ \A ip \in DOMAIN devices :
          /\ (devices[ip].first_seen # None) <=> (devices[ip].last_seen # None)
          /\ devices[ip].online =>
                (devices[ip].first_seen # None /\ devices[ip].last_seen # None)
          /\ devices[ip].first_seen # None =>
                devices[ip].first_seen[1] <= devices[ip].last_seen[1]
    /\ ViewBuilt =>
          \A i \in 1..Len(result) :
              result[i].online =>
                  /\ result[i].age_seconds # None
                  /\ result[i].last_seen_seconds_ago # None
                  /\ result[i].age_seconds[1] >= result[i].last_seen_seconds_ago[1]

\* C19 witness: a view holds an online device seen first earlier than last,
\* and the registry a record that was seen and is offline.
C19_Witness ==
    /\ ViewBuilt
    /\ \E i \in 1..Len(result) :
          /\ result[i].online
          /\ result[i].age_seconds[1] > result[i].last_seen_seconds_ago[1]
    /\ \E ip \in DOMAIN devices :
          ~devices[ip].online /\ devices[ip].last_seen # None

====
